---- MODULE Spec2Model ----
(***************************************************************************)
(* Model of the trajectory pipeline of trajectory_scripts:                 *)
(*   visualize_trajectories.py  route cache, fetch_route, the batch loop   *)
(*                              of main, count_segments                    *)
(*   trajectory_grid.py         build_grid                                 *)
(* Coordinates are floats in the source; here a latitude or longitude is   *)
(* an integer number of micro-degrees (1e-6 degree), so that rounding to 5 *)
(* or 4 decimals is a real computation.                                    *)
(***************************************************************************)
EXTENDS Integers, Sequences, FiniteSets, TLC

(***************************************************************************)
(* Bounds of the model.                                                    *)
(***************************************************************************)
\* longest trip list read from the CSV
MaxTrips == 3
\* longest list of routes given to count_segments
MaxRoutes == 3
\* longest list of points given to build_grid
MaxPoints == 3
\* largest grid size n given to build_grid (GRID_SIZE of the source is 16)
MaxN == 3
\* BATCH_SIZE of the source is 35 (visualize_trajectories.py:41); the model
\* runs the same loop with a small batch so that several batches happen
BATCH_SIZE == 2
\* depth of nested fetch_route frames the interpreter allows before it raises
\* RecursionError (sys.getrecursionlimit() is 1000 by default)
RecursionLimit == 3

(***************************************************************************)
(* Program constants.                                                      *)
(***************************************************************************)
\* decimals kept by make_cache_key
KEY_ROUND == 5
\* decimals kept by round_point
COORD_ROUND == 4
RECURSIVE Pow10(_)
Pow10(n) == IF n = 0 THEN 1 ELSE 10 * Pow10(n - 1)

\* Python round(x, nd) of a float given in micro-degrees: the nearest multiple
\* of 10^(6-nd), counted in units of 10^-nd; an exact decimal tie goes to the
\* even neighbour (the inputs of the model avoid exact ties, which a binary
\* float does not represent exactly).
round(x, nd) ==
    LET m == Pow10(6 - nd)
        q == x \div m
        r == x % m
    IN  IF 2 * r < m THEN q
        ELSE IF 2 * r > m THEN q + 1
        ELSE IF q % 2 = 0 THEN q ELSE q + 1

\* VEHICLE_CONFIG[vtype]["profile"]
VehicleTypes == {"EV Car", "Motor Dup", "Rickshaw", "Remork"}
VEHICLE_CONFIG ==
    [v \in VehicleTypes |->
        CASE v = "EV Car"    -> "driving-car"
          [] v = "Motor Dup" -> "cycling-electric"
          [] v = "Rickshaw"  -> "cycling-regular"
          [] v = "Remork"    -> "cycling-regular"]

\* make_cache_key(origin, dest, profile): the three parts of the key string
make_cache_key(origin, dest, profile) ==
    <<round(origin[1], KEY_ROUND), round(origin[2], KEY_ROUND),
      round(dest[1], KEY_ROUND), round(dest[2], KEY_ROUND), profile>>

(***************************************************************************)
(* Values: a route (list of [lat, lon]) or None.                           *)
(***************************************************************************)
None == [tag |-> "None", val |-> <<>>]
Some(r) == [tag |-> "route", val |-> r]

(***************************************************************************)
(* The inputs of the model.                                                *)
(***************************************************************************)
\* (lat, lon) places in micro-degrees; PlaceA and PlaceA2 differ below the
\* fifth decimal, PlaceB differs from PlaceA at the fifth decimal
PlaceA  == <<11550004, 104900000>>
PlaceA2 == <<11550003, 104900000>>
PlaceB  == <<11550016, 104900000>>
PlaceD  == <<11560000, 104920000>>

\* a trip of all_trips: (vehicle_type, origin, dest, profile)
Trip(v, o, d) == [vtype |-> v, origin |-> o, dest |-> d, profile |-> VEHICLE_CONFIG[v]]
TripPool ==
    { Trip("Rickshaw", PlaceA, PlaceD),
      Trip("Remork",   PlaceA, PlaceD),
      Trip("Rickshaw", PlaceA2, PlaceD),
      Trip("EV Car",   PlaceB, PlaceD) }

\* polylines the routing service may answer with, in its [lon, lat] order
RawRoutes ==
    { << <<104900000, 11550000>>, <<104920000, 11560000>> >>,
      << <<104900000, 11550000>>, <<104910000, 11555000>>, <<104920000, 11560000>> >> }

RECURSIVE SeqsUpTo(_, _)
SeqsUpTo(S, n) ==
    IF n = 0 THEN { <<>> }
    ELSE LET shorter == SeqsUpTo(S, n - 1)
         IN  shorter \cup { Append(s, x) : s \in { t \in shorter : Len(t) = n - 1 }, x \in S }

(***************************************************************************)
(* A Python dict keeps insertion order: a sequence of entries.             *)
(***************************************************************************)
InDict(c, k) == \E i \in DOMAIN c : c[i].key = k
DictGet(c, k) == c[CHOOSE i \in DOMAIN c : c[i].key = k].val
DictPut(c, k, v) ==
    IF InDict(c, k)
    THEN [i \in DOMAIN c |-> IF c[i].key = k THEN [key |-> k, val |-> v] ELSE c[i]]
    ELSE Append(c, [key |-> k, val |-> v])
DictKeys(c) == { c[i].key : i \in DOMAIN c }

(***************************************************************************)
(* The durable store route_cache.json.                                     *)
(***************************************************************************)
NoFile == [exists |-> FALSE, complete |-> FALSE, entries |-> <<>>]
FileOf(c) == [exists |-> TRUE, complete |-> TRUE, entries |-> c]

\* json.load succeeds on the file (a missing file is handled by load_cache)
Loadable(d) == ~d.exists \/ d.complete

\* variant: the file is never read
load_cache_missing(d) == <<>>

\* load_cache(): the mapping of the file, {} when there is no file
load_cache(d) == IF d.exists THEN d.entries ELSE <<>>

VARIABLES
    all_trips,       \* main: the trip list
    cache,           \* main: the in-memory cache dict
    disk,            \* the file CACHE_FILE
    pc,              \* position of the run
    idx,             \* number of trips of all_trips already processed
    depth,           \* nested fetch_route frames of the current request
    vehicle_routes,  \* main: vehicle_type -> list of results
    run,             \* "first" run, or the "fresh" run started after a kill
    calls,           \* external calls issued for the current request
    sinceDelay,      \* external calls issued since the last inter-batch delay
    sinceSleep,      \* external calls issued since the last sleep of any kind
    persists,        \* completed save_cache calls of this run
    delays,          \* inter-batch delays of this run
    effects,         \* what the last step did outside the process: call, sleep, write
    trace,           \* one record per processed trip of this run
    calledKeys,      \* keys an external call was issued for in this run
    checkpoints,     \* store before the run and cache at each completed batch
    resumed,         \* the previous run was killed between two batches
    resumeKeys,      \* keys fetched by the batches that run had completed
    routes,          \* count_segments: the argument
    seg_count,       \* count_segments: the result
    segpc,           \* count_segments: position
    points,          \* build_grid: the list of (lat, lon) points
    bbox,            \* build_grid: lat_min, lat_max, lon_min, lon_max
    n,               \* build_grid: the grid size
    grid,            \* build_grid: the result, (row, col) -> count, 0-based
    gridpc           \* build_grid: position

mainVars == <<all_trips, cache, disk, pc, idx, depth, vehicle_routes, run, calls,
              sinceDelay, sinceSleep, persists, delays, effects, trace,
              calledKeys, checkpoints, resumed, resumeKeys>>
segVars == <<routes, seg_count, segpc>>
gridVars == <<points, bbox, n, grid, gridpc>>
vars == <<mainVars, segVars, gridVars>>

(***************************************************************************)
(* main: state after the trip list was read (lines 213-244).               *)
(***************************************************************************)
EmptyRoutes == [v \in VehicleTypes |-> <<>>]

\* stores an earlier, completed run may have left behind
InitialStores ==
    { NoFile,
      FileOf(<< [key |-> make_cache_key(PlaceA, PlaceD, "cycling-regular"),
                 val |-> Some(<< <<11550000, 104900000>>, <<11560000, 104920000>> >>)] >>) }

SegIdle ==
    /\ routes = <<>>
    /\ seg_count = <<>>
    /\ segpc = "idle"

GridIdle ==
    /\ points = <<>>
    /\ bbox = [lat_min |-> 0, lat_max |-> 0, lon_min |-> 0, lon_max |-> 0]
    /\ n = 1
    /\ grid = [fault |-> FALSE, cells |-> <<>>]
    /\ gridpc = "idle"

Init ==
    /\ all_trips \in SeqsUpTo(TripPool, MaxTrips)
    /\ disk \in InitialStores
    /\ cache = <<>>
    /\ pc = "load"
    /\ idx = 0
    /\ depth = 1
    /\ vehicle_routes = EmptyRoutes
    /\ run = "first"
    /\ calls = 0
    /\ sinceDelay = 0
    /\ sinceSleep = 0
    /\ persists = 0
    /\ delays = 0
    /\ effects = {}
    /\ trace = <<>>
    /\ calledKeys = {}
    /\ checkpoints = { load_cache(disk) }
    /\ resumed = FALSE
    /\ resumeKeys = {}
    /\ SegIdle
    /\ GridIdle

total == Len(all_trips)

\* the request fetch_route is working on, and its key (line 109)
CurTrip == all_trips[idx + 1]

\* variant: the vehicle type is made part of the key
CurKey_vtype ==
    Append(make_cache_key(CurTrip.origin, CurTrip.dest, CurTrip.profile), CurTrip.vtype)

CurKey == make_cache_key(CurTrip.origin, CurTrip.dest, CurTrip.profile)

\* variant: save_cache after every trip
BatchEnd_each(i) == i + 1

\* line 246-247: the batch of the trip at 0-based position i ends after
\* position BatchEnd(i) - 1
BatchEnd(i) ==
    LET batch_idx == (i \div BATCH_SIZE) * BATCH_SIZE
    IN  IF batch_idx + BATCH_SIZE < total THEN batch_idx + BATCH_SIZE ELSE total

\* line 218: cache = load_cache(); json.load raises on a file that is not a
\* complete JSON document and main does not catch it
main_load ==
    /\ pc = "load"
    /\ IF Loadable(disk)
       THEN /\ cache' = load_cache(disk)
            /\ pc' = IF total = 0 THEN "done" ELSE "fetch"
       ELSE /\ cache' = cache
            /\ pc' = "crashed"
    /\ effects' = {}
    /\ UNCHANGED <<all_trips, disk, idx, depth, vehicle_routes, run, calls,
                   sinceDelay, sinceSleep, persists, delays, trace,
                   calledKeys, checkpoints, resumed, resumeKeys>>
    /\ UNCHANGED <<segVars, gridVars>>

\* lines 250-251 and the loop control of lines 246-253: the outermost
\* fetch_route returned `result`; it is appended and the loop goes on to the
\* next trip, or to save_cache after the last trip of the batch
Returned(result, outcome) ==
    /\ vehicle_routes' =
          [vehicle_routes EXCEPT ![CurTrip.vtype] = Append(@, result)]
    /\ trace' = Append(trace, [key |-> CurKey, outcome |-> outcome, result |-> result])
    /\ idx' = idx + 1
    /\ depth' = 1
    /\ pc' = IF idx + 1 = BatchEnd(idx) THEN "save_open" ELSE "fetch"

\* external calls of the request so far, when a fetch_route frame is entered:
\* none in the outermost frame
CallsSoFar == IF depth = 1 THEN 0 ELSE calls

\* variant: the request is posted before the cache is looked at
fetch_route_hit_posts ==
    /\ pc = "fetch"
    /\ InDict(cache, CurKey)
    /\ calls' = CallsSoFar + 1
    /\ sinceDelay' = sinceDelay + 1
    /\ sinceSleep' = sinceSleep + 1
    /\ calledKeys' = calledKeys \cup {CurKey}
    /\ effects' = {"call"}
    /\ Returned(DictGet(cache, CurKey), "hit")
    /\ UNCHANGED <<all_trips, cache, disk, run, persists, delays, checkpoints,
                   resumed, resumeKeys>>
    /\ UNCHANGED <<segVars, gridVars>>

\* variant: the cache is not looked at, the route is fetched and stored again
fetch_route_hit_refetch ==
    /\ pc = "fetch"
    /\ InDict(cache, CurKey)
    /\ calls' = CallsSoFar + 1
    /\ sinceDelay' = sinceDelay + 1
    /\ sinceSleep' = sinceSleep + 1
    /\ calledKeys' = calledKeys \cup {CurKey}
    /\ effects' = {"call"}
    /\ \E raw_coords \in RawRoutes :
         LET latlon == [i \in DOMAIN raw_coords |-> <<raw_coords[i][2], raw_coords[i][1]>>]
         IN  /\ cache' = DictPut(cache, CurKey, Some(latlon))
             /\ Returned(Some(latlon), "fetched")
    /\ UNCHANGED <<all_trips, disk, run, persists, delays, checkpoints,
                   resumed, resumeKeys>>
    /\ UNCHANGED <<segVars, gridVars>>

\* lines 111-112: cache hit
fetch_route_hit ==
    /\ pc = "fetch"
    /\ InDict(cache, CurKey)
    /\ calls' = CallsSoFar
    /\ effects' = {}
    /\ Returned(DictGet(cache, CurKey), "hit")
    /\ UNCHANGED <<all_trips, cache, disk, run, sinceDelay, sinceSleep, persists,
                   delays, calledKeys, checkpoints, resumed, resumeKeys>>
    /\ UNCHANGED <<segVars, gridVars>>

\* line 127: requests.post is issued
Posted ==
    /\ pc = "fetch"
    /\ ~InDict(cache, CurKey)
    /\ calls' = CallsSoFar + 1
    /\ sinceDelay' = sinceDelay + 1
    /\ sinceSleep' = sinceSleep + 1
    /\ calledKeys' = calledKeys \cup {CurKey}
    /\ effects' = {"call"}

\* line 131: [[c[1], c[0]] for c in raw_coords]
ToLatLon(raw_coords) == [i \in DOMAIN raw_coords |-> <<raw_coords[i][2], raw_coords[i][1]>>]

\* lines 129-133: status 200, the polyline is parsed, stored and returned
fetch_route_ok ==
    /\ Posted
    /\ \E raw_coords \in RawRoutes :
         LET latlon == ToLatLon(raw_coords)
         IN  /\ cache' = DictPut(cache, CurKey, Some(latlon))
             /\ Returned(Some(latlon), "fetched")
    /\ UNCHANGED <<all_trips, disk, run, persists, delays,
                   checkpoints, resumed, resumeKeys>>
    /\ UNCHANGED <<segVars, gridVars>>

\* lines 135-137: status 429
fetch_route_429 ==
    /\ Posted
    /\ pc' = "cooldown"
    /\ UNCHANGED <<all_trips, cache, disk, idx, depth, vehicle_routes, run,
                   persists, delays, trace, checkpoints, resumed, resumeKeys>>
    /\ UNCHANGED <<segVars, gridVars>>

\* variant: the retry follows at once, without the cooldown sleep
fetch_route_retry_nosleep ==
    /\ pc = "cooldown"
    /\ effects' = {}
    /\ IF depth < RecursionLimit
       THEN /\ depth' = depth + 1
            /\ pc' = "fetch"
            /\ UNCHANGED <<idx, vehicle_routes, trace>>
       ELSE Returned(None, "failed")
    /\ UNCHANGED <<all_trips, cache, disk, run, calls, sinceDelay, sinceSleep,
                   persists, delays, calledKeys, checkpoints, resumed, resumeKeys>>
    /\ UNCHANGED <<segVars, gridVars>>

\* lines 138-139: time.sleep(70), then fetch_route calls itself.  The frames
\* nest; when the interpreter refuses another frame the RecursionError is
\* caught by `except Exception` (lines 148-150) and None is returned through
\* every frame.
fetch_route_retry ==
    /\ pc = "cooldown"
    /\ effects' = {"sleep"}
    /\ sinceSleep' = 0
    /\ IF depth < RecursionLimit
       THEN /\ depth' = depth + 1
            /\ pc' = "fetch"
            /\ UNCHANGED <<idx, vehicle_routes, trace>>
       ELSE Returned(None, "failed")
    /\ UNCHANGED <<all_trips, cache, disk, run, calls, sinceDelay, persists, delays,
                   calledKeys, checkpoints, resumed, resumeKeys>>
    /\ UNCHANGED <<segVars, gridVars>>

\* lines 141-150: another status, a timeout, or any exception (one raised by
\* parsing a 200 response included)
FailureKinds == {"status", "timeout", "exception"}

\* variant: the exception is not caught and ends the run
fetch_route_error_raises ==
    /\ Posted
    /\ pc' = "crashed"
    /\ UNCHANGED <<all_trips, cache, disk, idx, depth, vehicle_routes, run,
                   persists, delays, trace, checkpoints, resumed, resumeKeys>>
    /\ UNCHANGED <<segVars, gridVars>>

\* variant: the failure is stored under the key
fetch_route_error_stored ==
    /\ Posted
    /\ cache' = DictPut(cache, CurKey, None)
    /\ Returned(None, "failed")
    /\ UNCHANGED <<all_trips, disk, run, persists, delays,
                   checkpoints, resumed, resumeKeys>>
    /\ UNCHANGED <<segVars, gridVars>>

fetch_route_error ==
    /\ Posted
    /\ \E why \in FailureKinds : Returned(None, "failed")
    /\ UNCHANGED <<all_trips, cache, disk, run, persists, delays,
                   checkpoints, resumed, resumeKeys>>
    /\ UNCHANGED <<segVars, gridVars>>

\* save_cache, line 79: open(CACHE_FILE, "w") truncates the file
save_cache_open ==
    /\ pc = "save_open"
    /\ disk' = [exists |-> TRUE, complete |-> FALSE, entries |-> <<>>]
    /\ checkpoints' = checkpoints \cup {cache}
    /\ effects' = {"write"}
    /\ pc' = "save_dump"
    /\ UNCHANGED <<all_trips, cache, idx, depth, vehicle_routes, run, calls,
                   sinceDelay, sinceSleep, persists, delays, trace,
                   calledKeys, resumed, resumeKeys>>
    /\ UNCHANGED <<segVars, gridVars>>

\* save_cache, line 80: json.dump writes the entries one after the other
save_cache_dump ==
    /\ pc = "save_dump"
    /\ Len(disk.entries) < Len(cache)
    /\ disk' = [disk EXCEPT !.entries = Append(@, cache[Len(@) + 1])]
    /\ effects' = {"write"}
    /\ UNCHANGED <<all_trips, cache, pc, idx, depth, vehicle_routes, run, calls,
                   sinceDelay, sinceSleep, persists, delays, trace,
                   calledKeys, checkpoints, resumed, resumeKeys>>
    /\ UNCHANGED <<segVars, gridVars>>

\* save_cache, lines 79-80: the closing brace is written and the file closed;
\* then lines 255-259: done = min(batch_idx + BATCH_SIZE, total)
save_cache_close ==
    /\ pc = "save_dump"
    /\ Len(disk.entries) = Len(cache)
    /\ disk' = [disk EXCEPT !.complete = TRUE]
    /\ effects' = {"write"}
    /\ persists' = persists + 1
    /\ pc' = IF idx < total THEN "delay" ELSE "done"
    /\ UNCHANGED <<all_trips, cache, idx, depth, vehicle_routes, run, calls,
                   sinceDelay, sinceSleep, delays, trace,
                   calledKeys, checkpoints, resumed, resumeKeys>>
    /\ UNCHANGED <<segVars, gridVars>>

\* lines 259-261: time.sleep(BATCH_DELAY), then the next batch
main_delay ==
    /\ pc = "delay"
    /\ delays' = delays + 1
    /\ sinceDelay' = 0
    /\ sinceSleep' = 0
    /\ effects' = {"sleep"}
    /\ pc' = "fetch"
    /\ UNCHANGED <<all_trips, cache, disk, idx, depth, vehicle_routes, run, calls,
                   persists, trace, calledKeys, checkpoints, resumed, resumeKeys>>
    /\ UNCHANGED <<segVars, gridVars>>

(***************************************************************************)
(* The environment: the process is killed, and a fresh run is started on   *)
(* the same trip list.  Only the file survives a kill.                     *)
(***************************************************************************)
Running == pc \notin {"done", "killed", "crashed", "idle"}

\* a batch has been saved and the next one has issued no call yet
BetweenBatches ==
    /\ persists >= 1
    /\ \/ pc = "delay"
       \/ pc = "fetch" /\ depth = 1 /\ sinceDelay = 0 /\ delays = persists

FetchedKeys == { trace[i].key : i \in { j \in DOMAIN trace : trace[j].outcome = "fetched" } }

Kill ==
    /\ Running
    /\ run = "first"
    /\ pc' = "killed"
    /\ resumed' = BetweenBatches
    /\ resumeKeys' = IF BetweenBatches THEN FetchedKeys ELSE {}
    /\ cache' = <<>>
    /\ idx' = 0
    /\ depth' = 1
    /\ vehicle_routes' = EmptyRoutes
    /\ calls' = 0
    /\ sinceDelay' = 0
    /\ sinceSleep' = 0
    /\ persists' = 0
    /\ delays' = 0
    /\ effects' = {}
    /\ trace' = <<>>
    /\ calledKeys' = {}
    /\ UNCHANGED <<all_trips, disk, checkpoints, run>>
    /\ UNCHANGED <<segVars, gridVars>>

Restart ==
    /\ pc = "killed"
    /\ run' = "fresh"
    /\ pc' = "load"
    /\ checkpoints' = IF Loadable(disk) THEN { load_cache(disk) } ELSE {}
    /\ UNCHANGED <<all_trips, cache, disk, idx, depth, vehicle_routes, calls,
                   sinceDelay, sinceSleep, persists, delays, effects, trace,
                   calledKeys, resumed, resumeKeys>>
    /\ UNCHANGED <<segVars, gridVars>>

RunNext ==
    \/ main_load
    \/ fetch_route_hit
    \/ fetch_route_ok
    \/ fetch_route_429
    \/ fetch_route_retry
    \/ fetch_route_error
    \/ save_cache_open
    \/ save_cache_dump
    \/ save_cache_close
    \/ main_delay

Next ==
    \/ RunNext
    \/ Kill
    \/ Restart

Spec == Init /\ [][Next]_vars

\* one run that nothing interrupts; the program is one sequential thread, so
\* its next step is always taken
RunSpec == Init /\ [][RunNext]_vars /\ WF_vars(RunNext)

TypeOK ==
    /\ pc \in {"load", "fetch", "cooldown", "save_open", "save_dump", "delay",
               "done", "killed", "crashed"}
    /\ idx \in 0..total
    /\ depth \in 1..RecursionLimit
    /\ run \in {"first", "fresh"}

(***************************************************************************)
(* Properties of fetch_route and of the batch loop.                        *)
(***************************************************************************)
KeyOf(t) == make_cache_key(t.origin, t.dest, t.profile)
Last(q) == q[Len(q)]
Processed(outcome) == { i \in DOMAIN trace : trace[i].outcome = outcome }

\* C1: one fetch_route invocation issues at most two external calls, and
\* sleeps only one cooldown: after a second rate-limit response it gives up.
C1_AtMostTwoCalls ==
    /\ calls <= 2
    /\ pc = "cooldown" => calls = 1

\* C2: after an interruption the store is loadable and holds the store as it
\* was before the run or the cache as of a completed batch.
C2_StoreValidAfterKill ==
    pc = "killed" => /\ Loadable(disk)
                     /\ load_cache(disk) \in checkpoints

\* C3: a fetch_route call whose key is cached issues no external call, does
\* not sleep, returns the stored route and leaves the cache as it is.
HitStep ==
    /\ pc = "fetch"
    /\ InDict(cache, CurKey)
    /\ pc' # "killed"

C3_CacheHitFrame ==
    [][HitStep =>
         /\ cache' = cache
         /\ effects' = {}
         /\ calledKeys' = calledKeys
         /\ sinceDelay' = sinceDelay
         /\ sinceSleep' = sinceSleep
         /\ disk' = disk
         /\ Len(trace') = Len(trace) + 1
         /\ Last(trace').result = DictGet(cache, CurKey)
         /\ vehicle_routes'[CurTrip.vtype] =
               Append(vehicle_routes[CurTrip.vtype], DictGet(cache, CurKey))]_vars

C3_Witness ==
    /\ Processed("hit") # {}
    /\ Processed("fetched") # {}

\* C4: a fresh run started after a kill between two batches loads a valid
\* cache, issues no external call for a key the killed run had fetched in
\* its completed batches, and answers every such request from the cache.
C4_ResumeFromCache ==
    (run = "fresh" /\ resumed) =>
        /\ pc # "crashed"
        /\ pc # "load" => resumeKeys \subseteq DictKeys(cache)
        /\ calledKeys \cap resumeKeys = {}
        /\ \A i \in DOMAIN trace :
             trace[i].key \in resumeKeys => trace[i].outcome = "hit"

C4_Witness ==
    /\ run = "fresh"
    /\ resumed
    /\ pc = "done"
    /\ \E i \in DOMAIN trace : trace[i].key \in resumeKeys
    /\ \E i \in DOMAIN trace : trace[i].key \notin resumeKeys

\* C5: the cache is persisted once per batch, after the batch's last request
\* and before the next batch; a delay follows every persist but the last;
\* nothing is written while a batch is partly processed.
CeilDiv(a, b) == (a + b - 1) \div b

C5_PersistPerBatch ==
    /\ pc \in {"fetch", "cooldown"} =>
          /\ idx < total
          /\ persists = idx \div BATCH_SIZE
          /\ delays = persists
          /\ "write" \notin effects
    /\ pc \in {"save_open", "save_dump"} =>
          /\ idx > 0
          /\ idx % BATCH_SIZE = 0 \/ idx = total
          /\ persists = CeilDiv(idx, BATCH_SIZE) - 1
          /\ delays = persists
    /\ pc = "delay" =>
          /\ idx % BATCH_SIZE = 0
          /\ idx < total
          /\ persists = idx \div BATCH_SIZE
          /\ delays = persists - 1
    /\ pc = "done" =>
          /\ idx = total
          /\ persists = CeilDiv(total, BATCH_SIZE)
          /\ delays = IF persists = 0 THEN 0 ELSE persists - 1

C5_Witness ==
    /\ pc = "done"
    /\ persists = 2
    /\ delays = 1
    /\ total % BATCH_SIZE # 0

\* C6: the fetch phase finishes, with one result per trip, each a cache hit,
\* a fresh fetch or a permanent failure, appended in input order.
RECURSIVE ResultsOf(_, _)
ResultsOf(v, k) ==
    IF k = 0 THEN <<>>
    ELSE IF all_trips[k].vtype = v
         THEN Append(ResultsOf(v, k - 1), trace[k].result)
         ELSE ResultsOf(v, k - 1)

OneOutcomePerTrip ==
    /\ Len(trace) = total
    /\ \A i \in DOMAIN trace :
         /\ trace[i].key = KeyOf(all_trips[i])
         /\ trace[i].outcome \in {"hit", "fetched", "failed"}
         /\ trace[i].outcome = "failed" <=> trace[i].result = None
    /\ \A v \in VehicleTypes : vehicle_routes[v] = ResultsOf(v, total)

C6_FetchPhaseFinishes == <>(pc = "done" /\ OneOutcomePerTrip)

C6_Witness ==
    /\ pc = "done"
    /\ OneOutcomePerTrip
    /\ Processed("hit") # {}
    /\ Processed("fetched") # {}
    /\ Processed("failed") # {}
    /\ \E v, w \in VehicleTypes : v # w /\ vehicle_routes[v] # <<>> /\ vehicle_routes[w] # <<>>

\* C7: a permanent failure returns None, leaves the cache unchanged with the
\* failed key absent, and the run goes on; no key is ever mapped to None.
NoNullEntry ==
    /\ \A i \in DOMAIN cache : cache[i].val # None
    /\ \A i \in DOMAIN disk.entries : disk.entries[i].val # None

FailStep ==
    /\ Len(trace') = Len(trace) + 1
    /\ Last(trace').outcome = "failed"

C7_FailureLeavesCache ==
    /\ []NoNullEntry
    /\ [][FailStep =>
            /\ Last(trace').result = None
            /\ cache' = cache
            /\ ~InDict(cache', Last(trace').key)
            /\ Last(vehicle_routes'[CurTrip.vtype]) = None
            /\ idx' = idx + 1
            /\ pc' \in {"fetch", "save_open"}]_vars

C7_Witness ==
    \E i \in DOMAIN trace :
       /\ trace[i].outcome = "failed"
       /\ i < Len(trace)
       /\ trace[i + 1].outcome = "fetched"

\* C8 as stated: at most BATCH_SIZE external calls between two consecutive
\* inter-batch delays.
C8_CallsBetweenDelays == sinceDelay <= BATCH_SIZE

\* C8 amended: at most BATCH_SIZE external calls between two consecutive
\* sleeps, an inter-batch delay or a rate-limit cooldown.
C8_CallsBetweenSleeps == sinceSleep <= BATCH_SIZE

C8_Witness ==
    /\ sinceSleep = BATCH_SIZE
    /\ sinceDelay > BATCH_SIZE

\* C9: two trips of different vehicle types with the same profile, origin
\* and destination have one key; once the first has a route the second is a
\* cache hit with that route, and a key is fetched at most once in a run.
SharedTrips(i, j) ==
    /\ i < j
    /\ all_trips[i].vtype # all_trips[j].vtype
    /\ all_trips[i].profile = all_trips[j].profile
    /\ all_trips[i].origin = all_trips[j].origin
    /\ all_trips[i].dest = all_trips[j].dest

C9_SharedRoute ==
    /\ \A i, j \in DOMAIN trace :
         SharedTrips(i, j) =>
            /\ trace[i].key = trace[j].key
            /\ trace[i].outcome # "failed" =>
                  /\ trace[j].outcome = "hit"
                  /\ trace[j].result = trace[i].result
    /\ \A i, j \in Processed("fetched") : trace[i].key = trace[j].key => i = j

C9_Witness ==
    \E i, j \in DOMAIN trace :
       /\ SharedTrips(i, j)
       /\ trace[i].outcome = "fetched"
       /\ trace[j].outcome = "hit"

\* C14: while a run goes on the cache only grows: no key is removed, no
\* stored route is replaced, and a key is written only by a success response
\* to a call made while the key was absent.
RunStep ==
    /\ pc \notin {"load", "killed", "idle"}
    /\ pc' # "killed"

C14_CacheOnlyGrows ==
    [][RunStep =>
         /\ \A k \in DictKeys(cache) :
              /\ InDict(cache', k)
              /\ DictGet(cache', k) = DictGet(cache, k)
         /\ cache' # cache =>
              /\ pc = "fetch"
              /\ ~InDict(cache, CurKey)
              /\ DictKeys(cache') = DictKeys(cache) \cup {CurKey}
              /\ "call" \in effects'
              /\ Last(trace').outcome = "fetched"
              /\ DictGet(cache', CurKey) = Last(trace').result]_vars

C14_Witness ==
    /\ pc = "done"
    /\ persists = 2
    /\ \E i \in DOMAIN cache : cache[i].key \in FetchedKeys
    /\ \E i \in DOMAIN cache : cache[i].key \notin FetchedKeys
    /\ Processed("hit") # {}

(***************************************************************************)
(* Segment frequency counting (lines 157-186).                             *)
(***************************************************************************)
\* round_point(pt), in units of 10^-COORD_ROUND degree
round_point(pt) == <<round(pt[1], COORD_ROUND), round(pt[2], COORD_ROUND)>>

\* Python's order on tuples of numbers, used by sorted()
TupleLE(a, b) == a[1] < b[1] \/ (a[1] = b[1] /\ a[2] <= b[2])

\* variant: the pair is not sorted
Segment_directed(a, b) == <<round_point(a), round_point(b)>>

\* line 181: tuple(sorted([round_point(route[i]), round_point(route[i + 1])]))
Segment(a, b) ==
    LET ra == round_point(a)
        rb == round_point(b)
    IN  IF TupleLE(ra, rb) THEN <<ra, rb>> ELSE <<rb, ra>>

\* seg_count[seg] += 1 on a defaultdict(int)
Increment(cnt, seg) ==
    IF seg \in DOMAIN cnt
    THEN [cnt EXCEPT ![seg] = @ + 1]
    ELSE [s \in DOMAIN cnt \cup {seg} |-> IF s = seg THEN 1 ELSE cnt[s]]

\* lines 180-184: the loop over the points of one route, from index i on
\* (1-based), with the segments already seen in this route
RECURSIVE CountRoute(_, _, _, _)
CountRoute(route, i, seen_in_this_route, cnt) ==
    IF i > Len(route) - 1 THEN cnt
    ELSE LET seg == Segment(route[i], route[i + 1])
         IN  IF seg \notin seen_in_this_route
             THEN CountRoute(route, i + 1, seen_in_this_route \cup {seg}, Increment(cnt, seg))
             ELSE CountRoute(route, i + 1, seen_in_this_route, cnt)

\* line 177: `not route` holds of None and of the empty list
Falsy(r) == r.tag = "None" \/ r.val = <<>>

\* lines 176-179: the loop over the routes, from index k on
RECURSIVE CountRoutes(_, _, _)
CountRoutes(rs, k, cnt) ==
    IF k > Len(rs) THEN cnt
    ELSE IF Falsy(rs[k]) THEN CountRoutes(rs, k + 1, cnt)
    ELSE CountRoutes(rs, k + 1, CountRoute(rs[k].val, 1, {}, cnt))

EmptyCount == [s \in {} |-> 0]

count_segments(rs) == CountRoutes(rs, 1, EmptyCount)

\* points (lat, lon) in micro-degrees: P0 and P1 are (0,0) and (0,1) degrees,
\* P0n rounds to P0 at 4 decimals, P2 is a third place
P0  == <<0, 0>>
P0n == <<30, 20>>
P1  == <<0, 1000000>>
P2  == <<1000000, 1000000>>

RoutePool ==
    { None,
      Some(<<>>),
      Some(<<P0>>),
      Some(<<P0, P1, P0>>),
      Some(<<P1, P0n>>),
      Some(<<P0, P1, P2>>),
      Some(<<P2, P1>>),
      Some(<<P0, P0n, P2>>) }

MainIdle ==
    /\ all_trips = <<>>
    /\ disk = NoFile
    /\ cache = <<>>
    /\ pc = "idle"
    /\ idx = 0
    /\ depth = 1
    /\ vehicle_routes = EmptyRoutes
    /\ run = "first"
    /\ calls = 0
    /\ sinceDelay = 0
    /\ sinceSleep = 0
    /\ persists = 0
    /\ delays = 0
    /\ effects = {}
    /\ trace = <<>>
    /\ calledKeys = {}
    /\ checkpoints = {}
    /\ resumed = FALSE
    /\ resumeKeys = {}

SegInit ==
    /\ MainIdle
    /\ GridIdle
    /\ routes \in SeqsUpTo(RoutePool, MaxRoutes)
    /\ seg_count = EmptyCount
    /\ segpc = "ready"

\* seg_count = count_segments(routes)
count_segments_call ==
    /\ segpc = "ready"
    /\ seg_count' = count_segments(routes)
    /\ segpc' = "counted"
    /\ UNCHANGED routes
    /\ UNCHANGED <<mainVars, gridVars>>

SegNext == count_segments_call

SegSpec == SegInit /\ [][SegNext]_vars

(***************************************************************************)
(* Properties of count_segments.                                           *)
(***************************************************************************)
\* the route r goes from A to B or from B to A (rounded points) at least once
Traverses(r, A, B) ==
    /\ ~Falsy(r)
    /\ \E i \in 1..(Len(r.val) - 1) :
         {round_point(r.val[i]), round_point(r.val[i + 1])} = {A, B}

Frequency(rs, A, B) == Cardinality({ k \in DOMAIN rs : Traverses(rs[k], A, B) })

RoundedPoints(rs) ==
    UNION { { round_point(rs[k].val[i]) : i \in DOMAIN rs[k].val } : k \in DOMAIN rs }

RECURSIVE Reversed(_)
Reversed(q) == IF q = <<>> THEN <<>> ELSE Append(Reversed(Tail(q)), Head(q))

ReverseRoute(r) == IF r.tag = "None" THEN r ELSE Some(Reversed(r.val))

Truthy(r) == ~Falsy(r)

\* C10: count_segments maps every undirected segment of rounded points to
\* the number of routes that traverse it at least once in either direction;
\* no count exceeds the number of non-empty routes, reversing a route changes
\* nothing, absent and empty routes add nothing, and the out-and-back route
\* [(0,0),(0,1),(0,0)] gives its single segment the count 1.
C10_SegmentFrequency ==
    segpc = "counted" =>
        /\ \A seg \in DOMAIN seg_count :
             /\ seg_count[seg] = Frequency(routes, seg[1], seg[2])
             /\ seg_count[seg] >= 1
             /\ seg_count[seg] <= Cardinality({ k \in DOMAIN routes : Truthy(routes[k]) })
        /\ \A A, B \in RoundedPoints(routes) :
             /\ Frequency(routes, A, B) > 0 =>
                   <<A, B>> \in DOMAIN seg_count \/ <<B, A>> \in DOMAIN seg_count
             /\ A # B => ~(<<A, B>> \in DOMAIN seg_count /\ <<B, A>> \in DOMAIN seg_count)
        /\ \A k \in DOMAIN routes :
             count_segments([routes EXCEPT ![k] = ReverseRoute(@)]) = seg_count
        /\ count_segments(SelectSeq(routes, Truthy)) = seg_count
        /\ routes = <<Some(<<P0, P1, P0>>)>> =>
             /\ DOMAIN seg_count = { << <<0, 0>>, <<0, 10000>> >> }
             /\ seg_count[<< <<0, 0>>, <<0, 10000>> >>] = 1

C10_Witness ==
    /\ segpc = "counted"
    /\ routes = <<Some(<<P0, P1, P0>>), None, Some(<<P1, P0n>>)>>
    /\ seg_count[<< <<0, 0>>, <<0, 10000>> >>] = 2

(***************************************************************************)
(* Grid building (trajectory_grid.py, lines 90-115).  The arithmetic of    *)
(* the source is floating point; here it is exact on integer coordinates.  *)
(***************************************************************************)
Abs(x) == IF x < 0 THEN -x ELSE x
Min2(x, y) == IF x < y THEN x ELSE y
Max2(x, y) == IF x > y THEN x ELSE y

\* int(a / b): the quotient truncated toward zero, b # 0
IntOfQuotient(a, b) ==
    LET q == Abs(a) \div Abs(b)
    IN  IF a = 0 \/ ((a < 0) = (b < 0)) THEN q ELSE -q

\* line 99: np.zeros((n, n)), indexed (row, col) from 0
ZeroCells(size) == [rc \in (0..(size - 1)) \X (0..(size - 1)) |-> 0]

\* line 104: lat_range == 0 or lon_range == 0
Degenerate_both(b) == (b.lat_max - b.lat_min = 0) /\ (b.lon_max - b.lon_min = 0)

Degenerate(b) == (b.lat_max - b.lat_min = 0) \/ (b.lon_max - b.lon_min = 0)

\* variant: the row is not flipped, south = row 0
CellOf_noflip(pt, b, size) ==
    LET col == IntOfQuotient((pt[2] - b.lon_min) * size, b.lon_max - b.lon_min)
        row == IntOfQuotient((pt[1] - b.lat_min) * size, b.lat_max - b.lat_min)
    IN  <<Min2(Max2(row, 0), size - 1), Min2(Max2(col, 0), size - 1)>>

\* lines 108-112: (row, col) of the point pt = (lat, lon)
CellOf(pt, b, size) ==
    LET col == IntOfQuotient((pt[2] - b.lon_min) * size, b.lon_max - b.lon_min)
        row == IntOfQuotient((b.lat_max - pt[1]) * size, b.lat_max - b.lat_min)
    IN  <<Min2(Max2(row, 0), size - 1), Min2(Max2(col, 0), size - 1)>>

\* variant: the cell is marked, not counted
Bump_marked(cells, rc) == [cells EXCEPT ![rc] = 1]

\* line 113: grid[row, col] += 1
Bump(cells, rc) == [cells EXCEPT ![rc] = @ + 1]

\* lines 107-113: the loop over the points, from index i on; a division by a
\* zero range raises and ends build_grid
RECURSIVE FillGrid(_, _, _, _, _)
FillGrid(pts, i, b, size, cells) ==
    IF i > Len(pts) THEN [fault |-> FALSE, cells |-> cells]
    ELSE IF b.lat_max - b.lat_min = 0 \/ b.lon_max - b.lon_min = 0
         THEN [fault |-> TRUE, cells |-> cells]
         ELSE FillGrid(pts, i + 1, b, size, Bump(cells, CellOf(pts[i], b, size)))

build_grid(pts, lat_min, lat_max, lon_min, lon_max, size) ==
    LET b == [lat_min |-> lat_min, lat_max |-> lat_max,
              lon_min |-> lon_min, lon_max |-> lon_max]
    IN  IF Degenerate(b)
        THEN [fault |-> FALSE, cells |-> ZeroCells(size)]
        ELSE FillGrid(pts, 1, b, size, ZeroCells(size))

\* points (lat, lon) in micro-degrees around the box lat [10, 11], lon [10, 11]
GridPoints ==
    { <<10000000, 10000000>>,
      <<11000000, 11000000>>,
      <<10500000, 10500000>>,
      <<10750000, 10250000>>,
      <<11500000,  9500000>>,
      <<9500000,  11500000>> }

Box(a, b, c, d) == [lat_min |-> a, lat_max |-> b, lon_min |-> c, lon_max |-> d]

\* the box of the example, a wider box, an inverted box, and boxes with no
\* latitude extent, no longitude extent, or neither
Boxes ==
    { Box(10000000, 11000000, 10000000, 11000000),
      Box(9500000, 11000000, 10000000, 11500000),
      Box(11000000, 10000000, 11000000, 10000000),
      Box(10500000, 10500000, 10000000, 11000000),
      Box(10000000, 11000000, 10500000, 10500000),
      Box(10500000, 10500000, 10500000, 10500000) }

GridInit ==
    /\ MainIdle
    /\ SegIdle
    /\ points \in SeqsUpTo(GridPoints, MaxPoints)
    /\ bbox \in Boxes
    /\ n \in 1..MaxN
    /\ grid = [fault |-> FALSE, cells |-> <<>>]
    /\ gridpc = "ready"

\* grid = build_grid(points, lat_min, lat_max, lon_min, lon_max, n)
build_grid_call ==
    /\ gridpc = "ready"
    /\ grid' = build_grid(points, bbox.lat_min, bbox.lat_max, bbox.lon_min, bbox.lon_max, n)
    /\ gridpc' = "built"
    /\ UNCHANGED <<points, bbox, n>>
    /\ UNCHANGED <<mainVars, segVars>>

GridNext == build_grid_call

GridSpec == GridInit /\ [][GridNext]_vars

(***************************************************************************)
(* Properties of build_grid.                                               *)
(***************************************************************************)
RECURSIVE SumOver(_, _)
SumOver(f, S) ==
    IF S = {} THEN 0
    ELSE LET x == CHOOSE y \in S : TRUE
         IN  f[x] + SumOver(f, S \ {x})

Indices == 0..(n - 1)
NonDegenerate == bbox.lat_max # bbox.lat_min /\ bbox.lon_max # bbox.lon_min

\* C11: for a non-degenerate box the cells of the grid sum to the number of
\* input points, repeated and outside points included.
C11_GridConservation ==
    (gridpc = "built" /\ NonDegenerate) =>
        /\ ~grid.fault
        /\ DOMAIN grid.cells = Indices \X Indices
        /\ SumOver(grid.cells, DOMAIN grid.cells) = Len(points)

C11_Witness ==
    /\ gridpc = "built"
    /\ NonDegenerate
    /\ n = 2
    /\ points = << <<10000000, 10000000>>, <<10000000, 10000000>>, <<11500000, 9500000>> >>
    /\ \E rc \in DOMAIN grid.cells : grid.cells[rc] = 2

\* floor(a / b), b # 0
FloorOfQuotient(a, b) == IF b > 0 THEN a \div b ELSE (-a) \div (-b)

Clamp(x) == IF x < 0 THEN 0 ELSE IF x > n - 1 THEN n - 1 ELSE x

\* the cell the binning rule gives the point pt = (lat, lon)
RuleCell(pt) ==
    << Clamp(FloorOfQuotient((bbox.lat_max - pt[1]) * n, bbox.lat_max - bbox.lat_min)),
       Clamp(FloorOfQuotient((pt[2] - bbox.lon_min) * n, bbox.lon_max - bbox.lon_min)) >>

\* C12: for a non-degenerate box every point is counted in the cell
\* (clamp(floor((latMax - lat) / latRange * n)), clamp(floor((lon - lonMin) /
\* lonRange * n))), which is within the grid; a point at lonMax is in column
\* n-1, a point at latMax in row 0, a point at latMin in row n-1.
C12_BinningRule ==
    (gridpc = "built" /\ NonDegenerate) =>
        /\ ~grid.fault
        /\ DOMAIN grid.cells = Indices \X Indices
        /\ \A rc \in DOMAIN grid.cells :
             grid.cells[rc] = Cardinality({ i \in DOMAIN points : RuleCell(points[i]) = rc })
        /\ Len(points) = 1 =>
             LET pt == points[1]
             IN  /\ pt[2] = bbox.lon_max => \E r \in Indices : grid.cells[<<r, n - 1>>] = 1
                 /\ pt[1] = bbox.lat_max => \E c \in Indices : grid.cells[<<0, c>>] = 1
                 /\ pt[1] = bbox.lat_min => \E c \in Indices : grid.cells[<<n - 1, c>>] = 1

C12_Witness ==
    /\ gridpc = "built"
    /\ n = 3
    /\ bbox = Box(10000000, 11000000, 10000000, 11000000)
    /\ points = << <<11000000, 11000000>>, <<10750000, 10250000>>, <<9500000, 11500000>> >>
    /\ grid.cells[<<0, 2>>] = 1
    /\ grid.cells[<<0, 0>>] = 1
    /\ grid.cells[<<2, 2>>] = 1

\* C13: a box with no latitude extent or no longitude extent gives an n x n
\* grid of zeros for every list of points, without a fault; so does an empty
\* list of points.
C13_DegenerateGrid ==
    (gridpc = "built" /\ (~NonDegenerate \/ points = <<>>)) =>
        /\ ~grid.fault
        /\ DOMAIN grid.cells = Indices \X Indices
        /\ \A rc \in DOMAIN grid.cells : grid.cells[rc] = 0

C13_Witness ==
    /\ gridpc = "built"
    /\ bbox.lat_max = bbox.lat_min
    /\ bbox.lon_max # bbox.lon_min
    /\ Len(points) = MaxPoints
    /\ n > 1
    /\ ~grid.fault

====
